---- MODULE Spec2Model ----
(***************************************************************************)
(* Sliding-window metrics recorder (llmservice/live_metrics.py) and the    *)
(* rate gate of BaseLLMService (llmservice/base_service.py).               *)
(*                                                                         *)
(* Time is a discrete clock `now` (one tick = one second).  A rate, which  *)
(* the code computes as the float  n * 60 / window,  is kept as the exact  *)
(* fraction <<n * 60, window>>; a comparison  rate >= cap  is done by      *)
(* cross-multiplication, which agrees with the float comparison for the    *)
(* small integers used here.  Costs are integers: units of 10^-5 USD in    *)
(* the recorder, units of 10^-6 USD where UsageStats rounds to 5 places.   *)
(***************************************************************************)
EXTENDS Integers, Sequences, FiniteSets, TLC

\* An optional value (int | None) is None or Some(x).
None == <<>>
Some(x) == <<x>>
Val(o) == o[1]

\* ---- bounds of the model ------------------------------------------------
MaxTime == 3            \* the clock runs 0 .. MaxTime
MaxCalls == 3           \* mark_sent + mark_rcv calls made through the direct API
MaxThreadTime == 2      \* the clock runs 0 .. MaxThreadTime while threads run
MaxReq == 3             \* requests made through execute_generation, all callers together
MaxResets == 1          \* reset_usage_stats calls
MaxMappings == 1        \* get_usage_stats calls
MaxUpdates == 2         \* requests made by the single client of the service
MaxLoops == 3           \* passes through the body of one wait loop
MaxReconfigs == 1       \* set_concurrency calls

\* ---- configurations explored ----------------------------------------------
Callers == {"t1", "t2"}
Windows == {1, 2}
DefaultConcurrency == 100   \* max_concurrent_requests: int = 100
RpmCaps == {None, Some(60)}
TpmCaps == {None, Some(120)}
\* what a finished generation reports in result.usage
Usages  == {[total_tokens |-> 1, total_cost |-> 1], [total_tokens |-> 2, total_cost |-> 3]}

VARIABLES
    metrics,    \* the service's MetricsRecorder (self.metrics)
    now,        \* time.time()
    sentHist,   \* history: every completed mark_sent, in lock order
    rcvHist,    \* history: every completed mark_rcv, in lock order
    lastOp,     \* direct API: the call made by the last step
    ret,        \* direct API: the value that call returned
    pc,         \* per caller: where it stands in its code
    loc,        \* per caller: its local variables
    request_id_counter,     \* self.request_id_counter
    semaphore,  \* self.semaphore (asyncio.Semaphore)
    heap,       \* the objects allocated, by address (where object identity matters)
    usage_stats,    \* self.usage_stats: the address of the service's UsageStats
    held,       \* the references the service's client has kept
    max_concurrent_requests     \* the argument self.semaphore was last built from

vars == <<metrics, now, sentHist, rcvHist, lastOp, ret, pc, loc, request_id_counter, semaphore,
          heap, usage_stats, held, max_concurrent_requests>>
svcVars == <<heap, usage_stats, held, max_concurrent_requests>>
callerVars == <<pc, loc, request_id_counter, semaphore>>
histVars == <<sentHist, rcvHist>>
apiVars == <<lastOp, ret>>

\* ---- helpers ------------------------------------------------------------
RECURSIVE SumSeq(_)
SumSeq(s) == IF s = <<>> THEN 0 ELSE Head(s) + SumSeq(Tail(s))

Max(a, b) == IF a >= b THEN a ELSE b

\* the float  n * 60 / w  as an exact fraction
Rate(n, w) == <<n * 60, w>>
\* variant: rate > cap
RateGE_strict(r, cap) == r[1] > cap * r[2]

\* rate >= cap
RateGE(r, cap) == r[1] >= cap * r[2]

\* ---- MetricsRecorder ----------------------------------------------------
MetricsRecorder(window, max_rpm, max_tpm) ==
    [ window |-> window, max_rpm |-> max_rpm, max_tpm |-> max_tpm,
      sent_ids |-> <<>>, rcv_ids |-> <<>>,
      sent_ts |-> <<>>, rcv_ts |-> <<>>, tok_ts |-> <<>>,
      total_sent |-> 0, total_rcv |-> 0, total_cost |-> 0 ]

\* while dq and dq[0] < cutoff: dq.popleft()
RECURSIVE PopWhileOlder(_, _)
PopWhileOlder(dq, cutoff) ==
    IF dq # <<>> /\ Head(dq) < cutoff THEN PopWhileOlder(Tail(dq), cutoff) ELSE dq

\* variant: an entry exactly `window` old is popped too (<= instead of <)
RECURSIVE PopWhileOlderOrEqual(_, _)
PopWhileOlderOrEqual(dq, cutoff) ==
    IF dq # <<>> /\ Head(dq) <= cutoff THEN PopWhileOlderOrEqual(Tail(dq), cutoff) ELSE dq

_trim_times_inclusive(dq, t, window) ==
    IF window = None THEN dq ELSE PopWhileOlderOrEqual(dq, t - Val(window))

_trim_times(dq, t, window) ==
    IF window = None THEN dq ELSE PopWhileOlder(dq, t - Val(window))

\* while self.tok_ts and self.tok_ts[0][0] < cutoff: self.tok_ts.popleft()
RECURSIVE PopPairsWhileOlder(_, _)
PopPairsWhileOlder(dq, cutoff) ==
    IF dq # <<>> /\ Head(dq)[1] < cutoff THEN PopPairsWhileOlder(Tail(dq), cutoff) ELSE dq

\* variant: nothing is trimmed
_trim_tokens_none(m, t) == m

_trim_tokens(m, t) == [m EXCEPT !.tok_ts = PopPairsWhileOlder(@, t - m.window)]

\* variant: the lifetime counter follows the trimmed deque
mark_sent_counts_window(m, req_id, t) ==
    LET dq == _trim_times(Append(m.sent_ts, t), t, Some(m.window))
    IN  [m EXCEPT !.total_sent = Len(dq), !.sent_ts = dq, !.sent_ids = Append(@, req_id)]

\* the locked body of mark_sent; t is the `now` taken before the lock
mark_sent(m, req_id, t) ==
    [m EXCEPT !.total_sent = @ + 1,
              !.sent_ts    = _trim_times(Append(@, t), t, Some(m.window)),
              !.sent_ids   = Append(@, req_id)]

\* the locked body of mark_rcv
mark_rcv(m, req_id, tokens, cost, t) ==
    _trim_tokens(
        [m EXCEPT !.total_rcv  = @ + 1,
                  !.total_cost = @ + cost,
                  !.rcv_ts     = _trim_times(Append(@, t), t, Some(m.window)),
                  !.rcv_ids    = Append(@, req_id),
                  !.tok_ts     = Append(@, <<t, tokens>>)],
        t)

\* the unlocked calculations: each trims its deque, then computes the rate.
\* `rec` is the recorder afterwards, `val` the value returned.
\* variant: the window is not passed to _trim_times, which then does nothing
_rpm_unlocked_no_window(m, t) ==
    LET dq == _trim_times(m.sent_ts, t, None)
    IN  [rec |-> [m EXCEPT !.sent_ts = dq], val |-> Rate(Len(dq), m.window)]

_rpm_unlocked(m, t) ==
    LET dq == _trim_times(m.sent_ts, t, Some(m.window))
    IN  [rec |-> [m EXCEPT !.sent_ts = dq], val |-> Rate(Len(dq), m.window)]

_repm_unlocked(m, t) ==
    LET dq == _trim_times(m.rcv_ts, t, Some(m.window))
    IN  [rec |-> [m EXCEPT !.rcv_ts = dq], val |-> Rate(Len(dq), m.window)]

_tpm_unlocked(m, t) ==
    LET m2 == _trim_tokens(m, t)
        total == SumSeq([i \in 1..Len(m2.tok_ts) |-> m2.tok_ts[i][2]])
    IN  [rec |-> m2, val |-> Rate(total, m.window)]

\* rpm() / repm() / tpm(): time.time() is read inside the lock
rpm(m, t)  == _rpm_unlocked(m, t)
repm(m, t) == _repm_unlocked(m, t)
tpm(m, t)  == _tpm_unlocked(m, t)

\* snapshot(): t is the `now` taken before the lock
snapshot(m, t) ==
    LET r1 == _rpm_unlocked(m, t)
        r2 == _repm_unlocked(r1.rec, t)
        r3 == _tpm_unlocked(r2.rec, t)
    IN  [rec |-> r3.rec,
         val |-> [total_sent |-> m.total_sent, total_rcv |-> m.total_rcv,
                  rpm |-> r1.val, repm |-> r2.val, tpm |-> r3.val,
                  cost |-> m.total_cost]]

\* variant: > instead of >=
is_rpm_limited_strict(m, t) ==
    IF m.max_rpm = None
    THEN [rec |-> m, val |-> FALSE]
    ELSE LET r == rpm(m, t) IN [rec |-> r.rec, val |-> r.val[1] > Val(m.max_rpm) * r.val[2]]

\* return self.max_rpm is not None and self.rpm() >= self.max_rpm
is_rpm_limited(m, t) ==
    IF m.max_rpm = None
    THEN [rec |-> m, val |-> FALSE]
    ELSE LET r == rpm(m, t) IN [rec |-> r.rec, val |-> RateGE(r.val, Val(m.max_rpm))]

is_tpm_limited(m, t) ==
    IF m.max_tpm = None
    THEN [rec |-> m, val |-> FALSE]
    ELSE LET r == tpm(m, t) IN [rec |-> r.rec, val |-> RateGE(r.val, Val(m.max_tpm))]

\* ---- history records ----------------------------------------------------
\* ts is the timestamp recorded, at the time at which the call completed
SentEvent(t, req_id) == [ts |-> t, at |-> now, id |-> req_id]
RcvEvent(t, req_id, tokens, cost) ==
    [ts |-> t, at |-> now, id |-> req_id, tokens |-> tokens, cost |-> cost]

\* ---- callers --------------------------------------------------------------
NoLoc == [ id |-> 0, t |-> 0, wake |-> 0, usage |-> None,
           rpm_limited |-> FALSE, tpm_limited |-> FALSE,
           waited |-> FALSE, waited2 |-> FALSE,
           phase |-> "before", sem |-> 0 ]

\* asyncio.Semaphore(value): the free slots and the queue of waiting tasks
Semaphore(value) == [value |-> value, waiters |-> <<>>]

\* what the client holds before it has kept anything (0 is no reference)
NoHeld == [old_metrics |-> 0, old_stats |-> 0, mapping |-> 0, seen |-> None]

\* the specifications of the recorder and of the rate gate keep the recorder in
\* `metrics` itself and leave the usage statistics out
InitNoHeap ==
    /\ heap = <<>>
    /\ usage_stats = 0
    /\ held = NoHeld

InitCallers ==
    /\ pc = [c \in Callers |-> "idle"]
    /\ loc = [c \in Callers |-> NoLoc]
    /\ request_id_counter = 0
    /\ semaphore = Semaphore(DefaultConcurrency)
    /\ max_concurrent_requests = DefaultConcurrency

\* ---- the direct API, driven by one caller -------------------------------
InitRec ==
    /\ InitCallers
    /\ InitNoHeap
    /\ \E w \in Windows, r \in RpmCaps, p \in TpmCaps : metrics = MetricsRecorder(w, r, p)
    /\ now = 0
    /\ sentHist = <<>>
    /\ rcvHist = <<>>
    /\ lastOp = "init"
    /\ ret = None

Tick ==
    /\ now < MaxTime
    /\ now' = now + 1
    /\ lastOp' = "tick"
    /\ UNCHANGED <<metrics, sentHist, rcvHist, ret, callerVars, svcVars>>

Call_mark_sent ==
    /\ Len(sentHist) + Len(rcvHist) < MaxCalls
    /\ LET id == Len(sentHist) + 1 IN
        /\ metrics' = mark_sent(metrics, id, now)
        /\ sentHist' = Append(sentHist, SentEvent(now, id))
    /\ lastOp' = "mark_sent"
    /\ ret' = None
    /\ UNCHANGED <<now, rcvHist, callerVars, svcVars>>

Call_mark_rcv ==
    /\ Len(sentHist) + Len(rcvHist) < MaxCalls
    /\ \E u \in Usages :
         LET id == Len(rcvHist) + 1 IN
           /\ metrics' = mark_rcv(metrics, id, u.total_tokens, u.total_cost, now)
           /\ rcvHist' = Append(rcvHist, RcvEvent(now, id, u.total_tokens, u.total_cost))
    /\ lastOp' = "mark_rcv"
    /\ ret' = None
    /\ UNCHANGED <<now, sentHist, callerVars, svcVars>>

Read(name, r) ==
    /\ metrics' = r.rec
    /\ ret' = r.val
    /\ lastOp' = name
    /\ UNCHANGED <<now, sentHist, rcvHist, callerVars, svcVars>>

Call_rpm            == Read("rpm", rpm(metrics, now))
Call_repm           == Read("repm", repm(metrics, now))
Call_tpm            == Read("tpm", tpm(metrics, now))
Call_snapshot       == Read("snapshot", snapshot(metrics, now))
Call_is_rpm_limited == Read("is_rpm_limited", is_rpm_limited(metrics, now))
Call_is_tpm_limited == Read("is_tpm_limited", is_tpm_limited(metrics, now))

NextRec ==
    \/ Tick
    \/ Call_mark_sent
    \/ Call_mark_rcv
    \/ Call_rpm
    \/ Call_repm
    \/ Call_tpm
    \/ Call_snapshot
    \/ Call_is_rpm_limited
    \/ Call_is_tpm_limited

SpecRec == InitRec /\ [][NextRec]_vars

\* ---- the direct API on any recorder the constructor accepts --------------
\* __init__ stores window, max_rpm and max_tpm as given, whatever their sign.
CtorWindows == {-1, 0, 1}
CtorRpmCaps == {None, Some(-60), Some(0), Some(60)}
CtorTpmCaps == {None, Some(0)}

\* the calls that evaluate  n * 60 / self.window
Divides(name, m) ==
    \/ name \in {"rpm", "repm", "tpm", "snapshot"}
    \/ name = "is_rpm_limited" /\ m.max_rpm # None
    \/ name = "is_tpm_limited" /\ m.max_tpm # None

\* the recorder a call leaves behind when its division raises: the deque of the
\* first rate computed has been trimmed already
TrimmedBeforeRaise(name, m, t) ==
    IF name \in {"tpm", "is_tpm_limited"} THEN _trim_tokens(m, t)
    ELSE IF name = "repm" THEN _repm_unlocked(m, t).rec
    ELSE _rpm_unlocked(m, t).rec

\* a call that raises ZeroDivisionError returns nothing
Try(name, r) ==
    IF Divides(name, metrics) /\ metrics.window = 0
    THEN /\ metrics' = TrimmedBeforeRaise(name, metrics, now)
         /\ ret' = None
         /\ lastOp' = "ZeroDivisionError"
         /\ UNCHANGED <<now, sentHist, rcvHist, callerVars, svcVars>>
    ELSE Read(name, r)

Try_rpm            == Try("rpm", rpm(metrics, now))
Try_repm           == Try("repm", repm(metrics, now))
Try_tpm            == Try("tpm", tpm(metrics, now))
Try_snapshot       == Try("snapshot", snapshot(metrics, now))
Try_is_rpm_limited == Try("is_rpm_limited", is_rpm_limited(metrics, now))
Try_is_tpm_limited == Try("is_tpm_limited", is_tpm_limited(metrics, now))

InitCtor ==
    /\ InitCallers
    /\ InitNoHeap
    /\ \E w \in CtorWindows, r \in CtorRpmCaps, p \in CtorTpmCaps :
          metrics = MetricsRecorder(w, r, p)
    /\ now = 0
    /\ sentHist = <<>>
    /\ rcvHist = <<>>
    /\ lastOp = "init"
    /\ ret = None

NextCtor ==
    \/ Tick
    \/ Call_mark_sent
    \/ Call_mark_rcv
    \/ Try_rpm
    \/ Try_repm
    \/ Try_tpm
    \/ Try_snapshot
    \/ Try_is_rpm_limited
    \/ Try_is_tpm_limited

SpecCtor == InitCtor /\ [][NextCtor]_vars

\* the clock, while threads run
TickThreads ==
    /\ now < MaxThreadTime
    /\ now' = now + 1
    /\ UNCHANGED <<metrics, histVars, apiVars, callerVars, svcVars>>

\* ---- BaseLLMService.execute_generation, one thread per caller -----------
\* A step is one locked section of the recorder or one access made outside
\* its lock; threads interleave between steps.  A step that touches nothing
\* shared is folded into the step that follows it.  The histories are kept
\* by the direct-API specifications only.
Goto(c, p) == pc' = [pc EXCEPT ![c] = p]
Assign(c, r) == loc' = [loc EXCEPT ![c] = r]

\* requests started so far: those that have an id and those still in the
\* "before" reads
BeforeReads == {"get_rpm_2", "get_tpm_1", "get_tpm_2", "gen_id"}
Started ==
    request_id_counter
      + Cardinality({c \in Callers : pc[c] \in BeforeReads /\ loc[c].phase = "before"})

\* entry of execute_generation, up to the first self.metrics.rpm() of
\* get_current_rpm (its print)
execute_generation(c) ==
    /\ pc[c] = "idle"
    /\ Started < MaxReq
    /\ metrics' = rpm(metrics, now).rec
    /\ Goto(c, "get_rpm_2")
    /\ Assign(c, [loc[c] EXCEPT !.phase = "before"])
    /\ UNCHANGED <<now, histVars, apiVars, request_id_counter, semaphore, svcVars>>

\* get_current_rpm: self.metrics.rpm() is called twice (print, then return)
get_current_rpm(c) ==
    /\ pc[c] \in {"get_rpm_1", "get_rpm_2"}
    /\ metrics' = rpm(metrics, now).rec
    /\ Goto(c, IF pc[c] = "get_rpm_1" THEN "get_rpm_2" ELSE "get_tpm_1")
    /\ UNCHANGED <<now, histVars, apiVars, loc, request_id_counter, semaphore, svcVars>>

\* get_current_tpm: self.metrics.tpm() is called twice; after the second
\* "after" read execute_generation returns
get_current_tpm(c) ==
    /\ pc[c] \in {"get_tpm_1", "get_tpm_2"}
    /\ metrics' = tpm(metrics, now).rec
    /\ IF pc[c] = "get_tpm_1"
       THEN Goto(c, "get_tpm_2") /\ UNCHANGED loc
       ELSE IF loc[c].phase = "before"
            THEN Goto(c, "gen_id") /\ UNCHANGED loc
            ELSE Goto(c, "idle") /\ Assign(c, NoLoc)
    /\ UNCHANGED <<now, histVars, apiVars, request_id_counter, semaphore, svcVars>>

_generate_request_id(c) ==
    /\ pc[c] = "gen_id"
    /\ request_id_counter' = request_id_counter + 1
    /\ Assign(c, [loc[c] EXCEPT !.id = request_id_counter + 1])
    /\ Goto(c, "rpm_check")
    /\ UNCHANGED <<metrics, now, histVars, apiVars, semaphore, svcVars>>

\* the loop test `while self.metrics.is_rpm_limited()`
\* variant: the loop is left whatever the check says
RpmLoopExits_always(limited) == TRUE

RpmLoopExits(limited) == ~limited

\* variant: one check, and on to the TPM loop whatever it says
_wait_if_rate_limited_sync_once(c) ==
    /\ pc[c] = "rpm_check"
    /\ LET r == is_rpm_limited(metrics, now) IN
        /\ metrics' = r.rec
        /\ Assign(c, [loc[c] EXCEPT !.rpm_limited = FALSE, !.waited = @ \/ r.val])
        /\ Goto(c, "tpm_check")
    /\ UNCHANGED <<now, histVars, apiVars, request_id_counter, semaphore, svcVars>>

_wait_if_rate_limited_sync(c) ==
    /\ pc[c] = "rpm_check"
    /\ LET r == is_rpm_limited(metrics, now) IN
        /\ metrics' = r.rec
        /\ Assign(c, [loc[c] EXCEPT !.rpm_limited = r.val, !.waited = @ \/ r.val])
        /\ Goto(c, IF RpmLoopExits(r.val) THEN "tpm_check" ELSE "rpm_refresh_empty")
    /\ UNCHANGED <<now, histVars, apiVars, request_id_counter, semaphore, svcVars>>

\* the loop test `while self.metrics.is_tpm_limited()`
\* variant: the loop is left whatever the check says
TpmLoopExits_always(limited) == TRUE

TpmLoopExits(limited) == ~limited

_wait_if_token_limited_sync(c) ==
    /\ pc[c] = "tpm_check"
    /\ LET r == is_tpm_limited(metrics, now) IN
        /\ metrics' = r.rec
        /\ Assign(c, [loc[c] EXCEPT !.tpm_limited = r.val, !.waited2 = @ \/ r.val])
        /\ Goto(c, IF TpmLoopExits(r.val) THEN "mark_sent_now" ELSE "tpm_refresh_empty")
    /\ UNCHANGED <<now, histVars, apiVars, request_id_counter, semaphore, svcVars>>

\* _secs_until_window_refresh(dq, is_pair) reads the deque without the lock:
\*   `if not dq: return 0`,  then  `oldest = dq[0]`  (dq[0][0] for pairs)
GateDeque(kind) == IF kind = "rpm" THEN metrics.sent_ts ELSE metrics.tok_ts
OldestOf(dq, is_pair) == IF is_pair THEN dq[1][1] ELSE dq[1]

\* the whole helper, t being its time.time():
\*   if not dq: return 0
\*   return max(0.0, self.metrics.window - (time.time() - oldest))
_secs_until_window_refresh(dq, is_pair, window, t) ==
    IF dq = <<>> THEN 0 ELSE Max(0, window - (t - OldestOf(dq, is_pair)))

\* `if not dq: return 0`, and time.sleep(0) starts
refresh_if_not_dq(c, kind) ==
    /\ pc[c] = kind \o "_refresh_empty"
    /\ IF GateDeque(kind) = <<>>
       THEN Goto(c, kind \o "_sleep") /\ Assign(c, [loc[c] EXCEPT !.wake = now])
       ELSE Goto(c, kind \o "_refresh_oldest") /\ UNCHANGED loc
    /\ UNCHANGED <<metrics, now, histVars, apiVars, request_id_counter, semaphore, svcVars>>

\* `oldest = dq[0]` raises IndexError on an empty deque; otherwise the wait is
\* computed and time.sleep(wait_for_s) starts
refresh_oldest(c, kind) ==
    /\ pc[c] = kind \o "_refresh_oldest"
    /\ IF GateDeque(kind) = <<>>
       THEN Goto(c, "IndexError") /\ UNCHANGED loc
       ELSE /\ Goto(c, kind \o "_sleep")
            /\ Assign(c, [loc[c] EXCEPT !.wake =
                 now + _secs_until_window_refresh(GateDeque(kind), kind = "tpm",
                                                  metrics.window, now)])
    /\ UNCHANGED <<metrics, now, histVars, apiVars, request_id_counter, semaphore, svcVars>>

\* time.sleep returns once at least wait_for_s has passed; the loop re-checks
time_sleep(c, kind) ==
    /\ pc[c] = kind \o "_sleep"
    /\ now >= loc[c].wake
    /\ Goto(c, kind \o "_check")
    /\ Assign(c, [loc[c] EXCEPT !.wake = 0])
    /\ UNCHANGED <<metrics, now, histVars, apiVars, request_id_counter, semaphore, svcVars>>

\* mark_sent: `now = time.time()` is taken before the lock ...
mark_sent_now(c) ==
    /\ pc[c] = "mark_sent_now"
    /\ Assign(c, [loc[c] EXCEPT !.t = now])
    /\ Goto(c, "mark_sent_lock")
    /\ UNCHANGED <<metrics, now, histVars, apiVars, request_id_counter, semaphore, svcVars>>

\* ... and the update is made under the lock
mark_sent_lock(c) ==
    /\ pc[c] = "mark_sent_lock"
    /\ metrics' = mark_sent(metrics, loc[c].id, loc[c].t)
    /\ Assign(c, [loc[c] EXCEPT !.t = 0])
    /\ Goto(c, "generate")
    /\ UNCHANGED <<now, histVars, apiVars, request_id_counter, semaphore, svcVars>>

\* generation_engine.generate_output raises, or returns a result with its
\* usage and _after_response -> mark_rcv takes `now = time.time()`
generate_output(c) ==
    /\ pc[c] = "generate"
    /\ \/ \E u \in Usages :
            /\ Assign(c, [loc[c] EXCEPT !.usage = u, !.t = now])
            /\ Goto(c, "mark_rcv_lock")
       \/ /\ Assign(c, NoLoc)
          /\ Goto(c, "idle")
    /\ UNCHANGED <<metrics, now, histVars, apiVars, request_id_counter, semaphore, svcVars>>

\* mark_rcv under the lock; the "after" reads follow
mark_rcv_lock(c) ==
    /\ pc[c] = "mark_rcv_lock"
    /\ LET u == loc[c].usage IN
         metrics' = mark_rcv(metrics, loc[c].id, u.total_tokens, u.total_cost, loc[c].t)
    /\ Assign(c, [loc[c] EXCEPT !.t = 0, !.usage = None, !.phase = "after"])
    /\ Goto(c, "get_rpm_1")
    /\ UNCHANGED <<now, histVars, apiVars, request_id_counter, semaphore, svcVars>>

GateConfigs == { <<1, Some(60), None>>, <<1, Some(60), Some(120)>>,
                 <<1, Some(0), None>>, <<1, Some(60), Some(0)>> }

InitGate ==
    /\ InitCallers
    /\ InitNoHeap
    /\ \E cfg \in GateConfigs : metrics = MetricsRecorder(cfg[1], cfg[2], cfg[3])
    /\ now = 0
    /\ sentHist = <<>>
    /\ rcvHist = <<>>
    /\ lastOp = "init"
    /\ ret = None

NextGate ==
    \/ TickThreads
    \/ \E c \in Callers :
        \/ execute_generation(c)
        \/ get_current_rpm(c)
        \/ get_current_tpm(c)
        \/ _generate_request_id(c)
        \/ _wait_if_rate_limited_sync(c)
        \/ _wait_if_token_limited_sync(c)
        \/ \E kind \in {"rpm", "tpm"} :
            \/ refresh_if_not_dq(c, kind)
            \/ refresh_oldest(c, kind)
            \/ time_sleep(c, kind)
        \/ mark_sent_now(c)
        \/ mark_sent_lock(c)
        \/ generate_output(c)
        \/ mark_rcv_lock(c)

SpecGate == InitGate /\ [][NextGate]_vars

\* ---- BaseLLMService.execute_generation, a single sequential caller ---------
\* rpm_window_seconds, max_rpm, max_tpm
SeqConfigs == { <<1, Some(60), None>>, <<1, Some(120), Some(120)>>, <<2, Some(60), None>> }

InitSeq ==
    /\ InitCallers
    /\ InitNoHeap
    /\ \E cfg \in SeqConfigs : metrics = MetricsRecorder(cfg[1], cfg[2], cfg[3])
    /\ now = 0
    /\ sentHist = <<>>
    /\ rcvHist = <<>>
    /\ lastOp = "init"
    /\ ret = None

\* the one caller
Alone == "t1"

NextSeq ==
    \/ TickThreads
    \/ execute_generation(Alone)
    \/ get_current_rpm(Alone)
    \/ get_current_tpm(Alone)
    \/ _generate_request_id(Alone)
    \/ _wait_if_rate_limited_sync(Alone)
    \/ _wait_if_token_limited_sync(Alone)
    \/ \E kind \in {"rpm", "tpm"} :
        \/ refresh_if_not_dq(Alone, kind)
        \/ refresh_oldest(Alone, kind)
        \/ time_sleep(Alone, kind)
    \/ mark_sent_now(Alone)
    \/ mark_sent_lock(Alone)
    \/ generate_output(Alone)
    \/ mark_rcv_lock(Alone)

SpecSeq == InitSeq /\ [][NextSeq]_vars

\* ---- the four wait loops, blocking and suspending, run side by side ---------
\* The recorder is first brought to some state through mark_sent / mark_rcv;
\* then a sole caller runs the blocking loop and the suspending loop from that
\* recorder and that clock, each on its own copy, with pauses of the same length.

\* the local variables of one wait loop, the recorder and the clock it sees,
\* and what it has done: the outcome of every loop test and every wait_for_s
WaitRun(m, t) ==
    [ rec |-> m, t |-> t, waited |-> FALSE, loop_count |-> 0, total_waited_ms |-> 0,
      checks |-> <<>>, waits |-> <<>>, returned |-> FALSE ]

\* one loop test and, when limited, one pass through the loop body; the pause
\* lasts wait_for_s plus `late`
_wait_if_rate_limited_sync_pass(r, late) ==
    IF r.returned THEN r
    ELSE LET c == is_rpm_limited(r.rec, r.t) IN
         IF ~c.val
         THEN [r EXCEPT !.rec = c.rec, !.checks = Append(@, FALSE), !.returned = TRUE]
         ELSE LET wait_for_s == _secs_until_window_refresh(c.rec.sent_ts, FALSE,
                                                           c.rec.window, r.t)
                  wait_ms == wait_for_s * 1000
              IN  [r EXCEPT !.rec = c.rec, !.checks = Append(@, TRUE),
                            !.waited = TRUE, !.loop_count = @ + 1,
                            !.total_waited_ms = @ + wait_ms,
                            !.waits = Append(@, wait_for_s),
                            !.t = @ + wait_for_s + late]

\* variant: total_waited_ms counts the time the pause really took
_wait_if_rate_limited_async_pass_slept(r, late) ==
    IF r.returned THEN r
    ELSE LET c == is_rpm_limited(r.rec, r.t) IN
         IF ~c.val
         THEN [r EXCEPT !.rec = c.rec, !.checks = Append(@, FALSE), !.returned = TRUE]
         ELSE LET wait_for_s == _secs_until_window_refresh(c.rec.sent_ts, FALSE,
                                                           c.rec.window, r.t)
                  wait_ms == (wait_for_s + late) * 1000
              IN  [r EXCEPT !.rec = c.rec, !.checks = Append(@, TRUE),
                            !.waited = TRUE, !.loop_count = @ + 1,
                            !.total_waited_ms = @ + wait_ms,
                            !.waits = Append(@, wait_for_s),
                            !.t = @ + wait_for_s + late]

_wait_if_rate_limited_async_pass(r, late) ==
    IF r.returned THEN r
    ELSE LET c == is_rpm_limited(r.rec, r.t) IN
         IF ~c.val
         THEN [r EXCEPT !.rec = c.rec, !.checks = Append(@, FALSE), !.returned = TRUE]
         ELSE LET wait_for_s == _secs_until_window_refresh(c.rec.sent_ts, FALSE,
                                                           c.rec.window, r.t)
                  wait_ms == wait_for_s * 1000
              IN  [r EXCEPT !.rec = c.rec, !.checks = Append(@, TRUE),
                            !.waited = TRUE, !.loop_count = @ + 1,
                            !.total_waited_ms = @ + wait_ms,
                            !.waits = Append(@, wait_for_s),
                            !.t = @ + wait_for_s + late]

_wait_if_token_limited_sync_pass(r, late) ==
    IF r.returned THEN r
    ELSE LET c == is_tpm_limited(r.rec, r.t) IN
         IF ~c.val
         THEN [r EXCEPT !.rec = c.rec, !.checks = Append(@, FALSE), !.returned = TRUE]
         ELSE LET wait_for_s == _secs_until_window_refresh(c.rec.tok_ts, TRUE,
                                                           c.rec.window, r.t)
                  wait_ms == wait_for_s * 1000
              IN  [r EXCEPT !.rec = c.rec, !.checks = Append(@, TRUE),
                            !.waited = TRUE, !.loop_count = @ + 1,
                            !.total_waited_ms = @ + wait_ms,
                            !.waits = Append(@, wait_for_s),
                            !.t = @ + wait_for_s + late]

_wait_if_token_limited_async_pass(r, late) ==
    IF r.returned THEN r
    ELSE LET c == is_tpm_limited(r.rec, r.t) IN
         IF ~c.val
         THEN [r EXCEPT !.rec = c.rec, !.checks = Append(@, FALSE), !.returned = TRUE]
         ELSE LET wait_for_s == _secs_until_window_refresh(c.rec.tok_ts, TRUE,
                                                           c.rec.window, r.t)
                  wait_ms == wait_for_s * 1000
              IN  [r EXCEPT !.rec = c.rec, !.checks = Append(@, TRUE),
                            !.waited = TRUE, !.loop_count = @ + 1,
                            !.total_waited_ms = @ + wait_ms,
                            !.waits = Append(@, wait_for_s),
                            !.t = @ + wait_for_s + late]

\* by how much a pause may overrun wait_for_s
Lateness == {0, 1}
LoopKinds == {"rpm_loops", "tpm_loops"}

\* the recorder is still being prepared
Preparing == lastOp \notin LoopKinds

\* both variants are called on the recorder as it stands
start_wait_loops ==
    /\ Preparing
    /\ \E kind \in LoopKinds : lastOp' = kind
    /\ ret' = [sync |-> WaitRun(metrics, now), async |-> WaitRun(metrics, now)]
    /\ UNCHANGED <<metrics, now, histVars, callerVars, svcVars>>

\* both variants make their next loop test and pause
wait_loops_pass ==
    /\ ~Preparing
    /\ ~ret.sync.returned \/ ~ret.async.returned
    /\ ret.sync.loop_count < MaxLoops /\ ret.async.loop_count < MaxLoops
    /\ \E late \in Lateness :
         ret' = IF lastOp = "rpm_loops"
                THEN [sync  |-> _wait_if_rate_limited_sync_pass(ret.sync, late),
                      async |-> _wait_if_rate_limited_async_pass(ret.async, late)]
                ELSE [sync  |-> _wait_if_token_limited_sync_pass(ret.sync, late),
                      async |-> _wait_if_token_limited_async_pass(ret.async, late)]
    /\ UNCHANGED <<metrics, now, lastOp, histVars, callerVars, svcVars>>

\* rpm_window_seconds, max_rpm, max_tpm
LoopConfigs == { <<1, Some(60), Some(120)>>, <<2, Some(60), Some(60)>>, <<1, Some(0), None>> }

InitLoops ==
    /\ InitCallers
    /\ InitNoHeap
    /\ \E cfg \in LoopConfigs : metrics = MetricsRecorder(cfg[1], cfg[2], cfg[3])
    /\ now = 0
    /\ sentHist = <<>>
    /\ rcvHist = <<>>
    /\ lastOp = "init"
    /\ ret = None

NextLoops ==
    \/ Preparing /\ Tick
    \/ Preparing /\ Call_mark_sent
    \/ Preparing /\ Call_mark_rcv
    \/ start_wait_loops
    \/ wait_loops_pass

SpecLoops == InitLoops /\ [][NextLoops]_vars

\* ---- BaseLLMService.execute_generation_async, tasks of one event loop -----
\* A task runs without interruption from one suspension point (await
\* asyncio.sleep, the semaphore, the generation call) to the next.

\* execute_generation_async from its entry ("start") or from the wake-up of one
\* of the wait loops ("rpm", "tpm") up to the next suspension in a wait loop,
\* or through mark_sent to the semaphore.
\* variant: mark_sent is recorded on entry, before the wait loops
run_to_suspension_send_first(m, id, t, stage) ==
    LET m0 == IF stage = "start" THEN mark_sent(m, id, t) ELSE m
        r1 == IF stage = "tpm" THEN [rec |-> m0, val |-> FALSE] ELSE is_rpm_limited(m0, t)
        r2 == is_tpm_limited(r1.rec, t)
    IN  IF r1.val
        THEN [rec |-> r1.rec, pc |-> "rpm_sleep",
              wake |-> t + _secs_until_window_refresh(r1.rec.sent_ts, FALSE, m.window, t)]
        ELSE IF r2.val
        THEN [rec |-> r2.rec, pc |-> "tpm_sleep",
              wake |-> t + _secs_until_window_refresh(r2.rec.tok_ts, TRUE, m.window, t)]
        ELSE [rec |-> r2.rec, pc |-> "semaphore", wake |-> 0]

run_to_suspension(m, id, t, stage) ==
    LET r1 == IF stage = "tpm" THEN [rec |-> m, val |-> FALSE] ELSE is_rpm_limited(m, t)
        r2 == is_tpm_limited(r1.rec, t)
    IN  IF r1.val
        THEN [rec |-> r1.rec, pc |-> "rpm_sleep",
              wake |-> t + _secs_until_window_refresh(r1.rec.sent_ts, FALSE, m.window, t)]
        ELSE IF r2.val
        THEN [rec |-> r2.rec, pc |-> "tpm_sleep",
              wake |-> t + _secs_until_window_refresh(r2.rec.tok_ts, TRUE, m.window, t)]
        ELSE [rec |-> mark_sent(r2.rec, id, t), pc |-> "semaphore", wake |-> 0]

\* variant: the task enters whether or not a slot is free
Proceed_without_slot(c, id, o) ==
    /\ metrics' = o.rec
    /\ IF o.pc = "semaphore"
       THEN /\ semaphore' = [semaphore EXCEPT !.value = @ - 1]
            /\ Goto(c, "generating")
       ELSE Goto(c, o.pc) /\ UNCHANGED semaphore
    /\ Assign(c, [loc[c] EXCEPT !.id = id, !.wake = o.wake])

\* `async with self.semaphore`: a free slot is taken at once, otherwise the
\* task queues; then `await generate_output_async` suspends the task
Proceed(c, id, o) ==
    /\ metrics' = o.rec
    /\ IF o.pc = "semaphore"
       THEN IF semaphore.value > 0 /\ semaphore.waiters = <<>>
            THEN /\ semaphore' = [semaphore EXCEPT !.value = @ - 1]
                 /\ Goto(c, "generating")
            ELSE /\ semaphore' = [semaphore EXCEPT !.waiters = Append(@, c)]
                 /\ Goto(c, "sem_wait")
       ELSE Goto(c, o.pc) /\ UNCHANGED semaphore
    /\ Assign(c, [loc[c] EXCEPT !.id = id, !.wake = o.wake])

execute_generation_async(c) ==
    /\ pc[c] = "idle"
    /\ request_id_counter < MaxReq
    /\ request_id_counter' = request_id_counter + 1
    /\ Proceed(c, request_id_counter + 1,
               run_to_suspension(metrics, request_id_counter + 1, now, "start"))
    /\ UNCHANGED <<now, histVars, apiVars, svcVars>>

\* variant: after the pause the task goes on to mark_sent without a new check
asyncio_sleep_done_no_recheck(c) ==
    /\ pc[c] \in {"rpm_sleep", "tpm_sleep"}
    /\ now >= loc[c].wake
    /\ Proceed(c, loc[c].id,
               [rec |-> mark_sent(metrics, loc[c].id, now), pc |-> "semaphore", wake |-> 0])
    /\ UNCHANGED <<now, histVars, apiVars, request_id_counter, svcVars>>

\* asyncio.sleep(wait_for_s) is over: the wait loop re-checks
asyncio_sleep_done(c) ==
    /\ pc[c] \in {"rpm_sleep", "tpm_sleep"}
    /\ now >= loc[c].wake
    /\ Proceed(c, loc[c].id,
               run_to_suspension(metrics, loc[c].id, now,
                                 IF pc[c] = "rpm_sleep" THEN "rpm" ELSE "tpm"))
    /\ UNCHANGED <<now, histVars, apiVars, request_id_counter, svcVars>>

\* the first queued task gets the slot that was released
semaphore_acquired(c) ==
    /\ pc[c] = "sem_wait"
    /\ semaphore.value > 0
    /\ semaphore.waiters # <<>> /\ Head(semaphore.waiters) = c
    /\ semaphore' = [value |-> semaphore.value - 1, waiters |-> Tail(semaphore.waiters)]
    /\ Goto(c, "generating")
    /\ UNCHANGED <<metrics, now, histVars, apiVars, loc, request_id_counter, svcVars>>

\* generate_output_async returns (then _after_response -> mark_rcv) or raises;
\* leaving the `async with` block releases the slot
generate_output_async(c) ==
    /\ pc[c] = "generating"
    /\ \/ \E u \in Usages :
            metrics' = mark_rcv(metrics, loc[c].id, u.total_tokens, u.total_cost, now)
       \/ UNCHANGED metrics
    /\ semaphore' = [semaphore EXCEPT !.value = @ + 1]
    /\ Assign(c, NoLoc)
    /\ Goto(c, "idle")
    /\ UNCHANGED <<now, histVars, apiVars, request_id_counter, svcVars>>

\* the task is cancelled: CancelledError is raised at the await it is suspended in
cancel(c) ==
    /\ pc[c] \in {"rpm_sleep", "tpm_sleep", "sem_wait", "generating"}
    /\ Goto(c, IF pc[c] \in {"rpm_sleep", "tpm_sleep"}
               THEN "cancelled_in_gate" ELSE "cancelled")
    /\ semaphore' =
         IF pc[c] = "generating" THEN [semaphore EXCEPT !.value = @ + 1]
         ELSE IF pc[c] = "sem_wait"
              THEN [semaphore EXCEPT !.waiters = SelectSeq(@, LAMBDA d : d # c)]
              ELSE semaphore
    /\ UNCHANGED <<metrics, now, histVars, apiVars, loc, request_id_counter, svcVars>>

AsyncConfigs == { <<1, Some(60), None, 1>>, <<1, Some(60), Some(120), 2>> }

InitAsync ==
    /\ InitNoHeap
    /\ pc = [c \in Callers |-> "idle"]
    /\ loc = [c \in Callers |-> NoLoc]
    /\ request_id_counter = 0
    /\ \E cfg \in AsyncConfigs :
        /\ metrics = MetricsRecorder(cfg[1], cfg[2], cfg[3])
        /\ semaphore = Semaphore(cfg[4])
        /\ max_concurrent_requests = cfg[4]
    /\ now = 0
    /\ sentHist = <<>>
    /\ rcvHist = <<>>
    /\ lastOp = "init"
    /\ ret = None

NextAsync ==
    \/ TickThreads
    \/ \E c \in Callers :
        \/ execute_generation_async(c)
        \/ asyncio_sleep_done(c)
        \/ semaphore_acquired(c)
        \/ generate_output_async(c)
        \/ cancel(c)

SpecAsync == InitAsync /\ [][NextAsync]_vars

\* ---- the recorder called from several threads ---------------------------
\* Each thread calls mark_sent, mark_rcv, snapshot or tpm.  mark_sent, mark_rcv
\* and snapshot take `now = time.time()` first and enter the lock in a later
\* step; tpm() reads the clock inside the lock.
thread_mark_sent(c) ==
    /\ pc[c] = "idle"
    /\ Len(sentHist) + Len(rcvHist)
         + Cardinality({d \in Callers : pc[d] \in {"sent_lock", "rcv_lock"}}) < MaxCalls
    /\ Assign(c, [loc[c] EXCEPT !.t = now])
    /\ Goto(c, "sent_lock")
    /\ UNCHANGED <<metrics, now, histVars, apiVars, request_id_counter, semaphore, svcVars>>

thread_mark_sent_lock(c) ==
    /\ pc[c] = "sent_lock"
    /\ LET id == Len(sentHist) + 1 IN
        /\ metrics' = mark_sent(metrics, id, loc[c].t)
        /\ sentHist' = Append(sentHist, SentEvent(loc[c].t, id))
    /\ Assign(c, NoLoc)
    /\ Goto(c, "idle")
    /\ UNCHANGED <<now, rcvHist, apiVars, request_id_counter, semaphore, svcVars>>

thread_mark_rcv(c) ==
    /\ pc[c] = "idle"
    /\ Len(sentHist) + Len(rcvHist)
         + Cardinality({d \in Callers : pc[d] \in {"sent_lock", "rcv_lock"}}) < MaxCalls
    /\ \E u \in Usages : Assign(c, [loc[c] EXCEPT !.t = now, !.usage = u])
    /\ Goto(c, "rcv_lock")
    /\ UNCHANGED <<metrics, now, histVars, apiVars, request_id_counter, semaphore, svcVars>>

thread_mark_rcv_lock(c) ==
    /\ pc[c] = "rcv_lock"
    /\ LET id == Len(rcvHist) + 1
           u == loc[c].usage IN
        /\ metrics' = mark_rcv(metrics, id, u.total_tokens, u.total_cost, loc[c].t)
        /\ rcvHist' = Append(rcvHist, RcvEvent(loc[c].t, id, u.total_tokens, u.total_cost))
    /\ Assign(c, NoLoc)
    /\ Goto(c, "idle")
    /\ UNCHANGED <<now, sentHist, apiVars, request_id_counter, semaphore, svcVars>>

thread_snapshot(c) ==
    /\ pc[c] = "idle"
    /\ Assign(c, [loc[c] EXCEPT !.t = now])
    /\ Goto(c, "snapshot_lock")
    /\ UNCHANGED <<metrics, now, histVars, apiVars, request_id_counter, semaphore, svcVars>>

\* the snapshot returned is kept in `ret`, with the times at which snapshot()
\* read the clock and at which it returned
thread_snapshot_lock(c) ==
    /\ pc[c] = "snapshot_lock"
    /\ LET r == snapshot(metrics, loc[c].t) IN
        /\ metrics' = r.rec
        /\ ret' = [snap |-> r.val, taken |-> loc[c].t, returned |-> now]
    /\ lastOp' = "snapshot"
    /\ Assign(c, NoLoc)
    /\ Goto(c, "idle")
    /\ UNCHANGED <<now, histVars, request_id_counter, semaphore, svcVars>>

thread_tpm(c) ==
    /\ pc[c] = "idle"
    /\ metrics' = tpm(metrics, now).rec
    /\ UNCHANGED <<now, histVars, apiVars, callerVars, svcVars>>

InitThreads ==
    /\ InitCallers
    /\ InitNoHeap
    /\ metrics = MetricsRecorder(1, None, None)
    /\ now = 0
    /\ sentHist = <<>>
    /\ rcvHist = <<>>
    /\ lastOp = "init"
    /\ ret = None

NextThreads ==
    \/ TickThreads
    \/ \E c \in Callers :
        \/ thread_mark_sent(c)
        \/ thread_mark_sent_lock(c)
        \/ thread_mark_rcv(c)
        \/ thread_mark_rcv_lock(c)
        \/ thread_snapshot(c)
        \/ thread_snapshot_lock(c)
        \/ thread_tpm(c)

SpecThreads == InitThreads /\ [][NextThreads]_vars

\* ---- UsageStats (llmservice/schemas.py) -----------------------------------
\* Objects live in `heap`; a reference is an address 1 .. Len(heap).  A dict is
\* a function from its keys.
ZeroUsage ==
    [ input_tokens |-> 0, output_tokens |-> 0, total_tokens |-> 0,
      input_cost |-> 0, output_cost |-> 0, total_cost |-> 0 ]

\* UsageStats(model): allocates total_usage, operation_usage and the object
UsageStats(h, model) ==
    [ heap |-> h \o << ZeroUsage, <<>>,
                       [ model |-> model,
                         total_usage |-> Len(h) + 1,
                         operation_usage |-> Len(h) + 2 ] >>,
      ref |-> Len(h) + 3 ]

\* meta.get(key, 0)
Get(meta, key) == IF key \in DOMAIN meta THEN meta[key] ELSE 0

\* round(x, 5), x in units of 10^-6: the nearest multiple of 10 units
round5(x) == ((x + 5) \div 10) * 10

\* the six `+=` on one usage dict, and the rounding of its total_cost
AddUsage(d, meta) ==
    [ input_tokens  |-> d.input_tokens  + Get(meta, "input_tokens"),
      output_tokens |-> d.output_tokens + Get(meta, "output_tokens"),
      total_tokens  |-> d.total_tokens  + Get(meta, "total_tokens"),
      input_cost    |-> d.input_cost    + Get(meta, "input_cost"),
      output_cost   |-> d.output_cost   + Get(meta, "output_cost"),
      total_cost    |-> round5(d.total_cost + Get(meta, "total_cost")) ]

\* variant: the operation's entry is created anew at every update
update_recreates_entry(h, self, meta, operation_name) ==
    LET s == h[self] IN
        [h EXCEPT ![s.total_usage] = AddUsage(@, meta),
                  ![s.operation_usage] =
                      [k \in (DOMAIN @) \cup {operation_name} |->
                          IF k = operation_name THEN AddUsage(ZeroUsage, meta) ELSE @[k]]]

\* UsageStats.update(meta, operation_name): the heap afterwards
update(h, self, meta, operation_name) ==
    LET s == h[self] IN
        [h EXCEPT ![s.total_usage] = AddUsage(@, meta),
                  ![s.operation_usage] =
                      [k \in (DOMAIN @) \cup {operation_name} |->
                          IF k = operation_name
                          THEN AddUsage(IF k \in DOMAIN @ THEN @[k] ELSE ZeroUsage, meta)
                          ELSE @[k]]]

\* UsageStats.to_dict(): a new dict whose values are the object's own
\* total_usage and operation_usage dicts (references, not copies)
to_dict(h, self) ==
    [ heap |-> Append(h, [ model |-> h[self].model,
                           total_usage |-> h[self].total_usage,
                           operation_usage |-> h[self].operation_usage ]),
      ref |-> Len(h) + 1 ]

\* what is read through a UsageStats object or through a returned mapping
View(h, a) ==
    [ model |-> h[a].model,
      total_usage |-> h[h[a].total_usage],
      operation_usage |-> h[h[a].operation_usage] ]

\* ---- the service used by one client: requests, statistics, re-configuration --
\* self.metrics is the address of the recorder here: reset_usage_stats re-binds it.
\* All calls are made within one second (the clock stands still).
DefaultModel == "default-model"

\* result.usage of a generation: all keys, some keys, or none (a non-metered backend)
Metas ==
    << [ input_tokens |-> 10, output_tokens |-> 5, total_tokens |-> 15,
         input_cost |-> 4, output_cost |-> 3, total_cost |-> 7 ],
       [ total_tokens |-> 2, total_cost |-> 4 ],
       <<>> >>
\* result.operation_name
OperationNames == {Some("op_a"), None}

IsRecorder(o) == "window" \in DOMAIN o
Resets == Cardinality({a \in 1..Len(heap) : IsRecorder(heap[a])}) - 1
\* the dicts returned by to_dict: what has a 'model' and is no UsageStats
Mappings ==
    Cardinality({a \in 1..Len(heap) : "model" \in DOMAIN heap[a]})
        - Cardinality({a \in 1..Len(heap) : IsRecorder(heap[a])})

\* one completed _after_response: the usage reported and the objects updated
ResponseEvent(id, usage, op_name) ==
    [ ts |-> now, at |-> now, id |-> id, usage |-> usage, op |-> op_name,
      stats |-> usage_stats, recorder |-> metrics ]

\* rpm_window_seconds, max_rpm, max_tpm
ServiceConfigs == { <<60, Some(100), None>>, <<60, Some(100), Some(1000)>> }

InitService ==
    /\ InitCallers
    /\ \E cfg \in ServiceConfigs :
          LET u == UsageStats(<<>>, DefaultModel) IN
            /\ heap = Append(u.heap, MetricsRecorder(cfg[1], cfg[2], cfg[3]))
            /\ usage_stats = u.ref
            /\ metrics = Len(u.heap) + 1
    /\ held = NoHeld
    /\ now = 0
    /\ sentHist = <<>>
    /\ rcvHist = <<>>
    /\ lastOp = "init"
    /\ ret = None

\* execute_generation by a single caller.  The call gets past its wait loops
\* when both checks are false (until then it sleeps, and the clock advances);
\* the generation raises, or returns a result that _after_response books.
Call_execute_generation ==
    /\ request_id_counter < MaxUpdates
    /\ LET before == tpm(rpm(heap[metrics], now).rec, now).rec
           id == request_id_counter + 1
           g1 == is_rpm_limited(before, now)
           g2 == is_tpm_limited(g1.rec, now)
           sent == mark_sent(g2.rec, id, now)
       IN  /\ ~g1.val /\ ~g2.val
           /\ request_id_counter' = id
           /\ sentHist' = Append(sentHist, SentEvent(now, id))
           /\ \/ /\ heap' = [heap EXCEPT ![metrics] = sent]
                 /\ UNCHANGED rcvHist
              \/ \E i \in 1..Len(Metas), op \in OperationNames :
                    LET usage == Metas[i]
                        op_name == IF op = None THEN "unknown_operation" ELSE Val(op)
                        rcvd == mark_rcv(sent, id, Get(usage, "total_tokens"),
                                         Get(usage, "total_cost"), now)
                        after == tpm(rpm(rcvd, now).rec, now).rec
                    IN  /\ heap' = update([heap EXCEPT ![metrics] = after],
                                          usage_stats, usage, op_name)
                        /\ rcvHist' = Append(rcvHist, ResponseEvent(id, usage, op_name))
    /\ lastOp' = "execute_generation"
    /\ ret' = None
    /\ UNCHANGED <<metrics, now, usage_stats, held, pc, loc, semaphore, max_concurrent_requests>>

\* variant: both caps are assigned whatever the arguments
set_rate_limits_always(m, max_rpm, max_tpm) ==
    [m EXCEPT !.max_rpm = max_rpm, !.max_tpm = max_tpm]

\* set_rate_limits(max_rpm=None, max_tpm=None) on the recorder m
set_rate_limits(m, max_rpm, max_tpm) ==
    [m EXCEPT !.max_rpm = IF max_rpm # None THEN max_rpm ELSE @,
              !.max_tpm = IF max_tpm # None THEN max_tpm ELSE @]

Call_set_rate_limits ==
    /\ \E max_rpm \in {None, Some(2)}, max_tpm \in {None, Some(2000)} :
          /\ heap' = [heap EXCEPT ![metrics] = set_rate_limits(@, max_rpm, max_tpm)]
          /\ ret' = [max_rpm |-> max_rpm, max_tpm |-> max_tpm]
    /\ lastOp' = "set_rate_limits"
    /\ UNCHANGED <<metrics, now, histVars, usage_stats, held, callerVars, max_concurrent_requests>>

\* variant: the two objects are zeroed where they are
reset_usage_stats_in_place(h, self) ==
    [ heap |-> [h EXCEPT ![self.metrics] = MetricsRecorder(@.window, @.max_rpm, @.max_tpm),
                         ![h[self.usage_stats].total_usage] = ZeroUsage,
                         ![h[self.usage_stats].operation_usage] = <<>>],
      usage_stats |-> self.usage_stats,
      metrics |-> self.metrics ]

\* reset_usage_stats(): a new UsageStats, then a new MetricsRecorder built from
\* the window and the caps of the current one
reset_usage_stats(h, self) ==
    LET u == UsageStats(h, DefaultModel)
        m == h[self.metrics]
    IN  [ heap |-> Append(u.heap, MetricsRecorder(m.window, m.max_rpm, m.max_tpm)),
          usage_stats |-> u.ref,
          metrics |-> Len(u.heap) + 1 ]

\* the client keeps its references to the current objects, then resets
Call_reset_usage_stats ==
    /\ Resets < MaxResets
    /\ LET r == reset_usage_stats(heap, [usage_stats |-> usage_stats, metrics |-> metrics]) IN
          /\ heap' = r.heap
          /\ usage_stats' = r.usage_stats
          /\ metrics' = r.metrics
    /\ held' = [held EXCEPT !.old_metrics = metrics, !.old_stats = usage_stats]
    /\ lastOp' = "reset_usage_stats"
    /\ ret' = None
    /\ UNCHANGED <<now, histVars, callerVars, max_concurrent_requests>>

\* get_usage_stats(): the client keeps the mapping returned, and notes what it
\* read through it at that moment
Call_get_usage_stats ==
    /\ Mappings < MaxMappings
    /\ LET r == to_dict(heap, usage_stats) IN
          /\ heap' = r.heap
          /\ held' = [held EXCEPT !.mapping = r.ref, !.seen = Some(View(r.heap, r.ref))]
          /\ ret' = r.ref
    /\ lastOp' = "get_usage_stats"
    /\ UNCHANGED <<metrics, now, histVars, usage_stats, callerVars, max_concurrent_requests>>

NextService ==
    \/ Call_execute_generation
    \/ Call_set_rate_limits
    \/ Call_reset_usage_stats
    \/ Call_get_usage_stats

SpecService == InitService /\ [][NextService]_vars

\* ---- the service with requests in flight: tasks, reset, set_concurrency ------
\* Tasks of one event loop call execute_generation_async; between their steps the
\* loop runs blocking calls: execute_generation, reset_usage_stats and
\* set_concurrency.  self.metrics, self.usage_stats and self.semaphore are
\* addresses; a task inside `async with self.semaphore` keeps the semaphore it
\* entered in loc.sem.  The caps are far away and the clock stands still.
IsSemaphore(o) == "waiters" \in DOMAIN o
Reconfigs == Cardinality({a \in 1..Len(heap) : IsSemaphore(heap[a])}) - 1

\* max_concurrent_requests given to the constructor and to set_concurrency
Concurrencies == {1, 2}

\* execute_generation_async up to its first suspension: the wait loops let the
\* task through, mark_sent, and `async with self.semaphore` on the semaphore
\* the service has at that moment
live_execute_generation_async(c) ==
    /\ pc[c] = "idle"
    /\ request_id_counter < MaxReq
    /\ LET id == request_id_counter + 1
           g1 == is_rpm_limited(heap[metrics], now)
           g2 == is_tpm_limited(g1.rec, now)
           sent == mark_sent(g2.rec, id, now)
           sem == heap[semaphore]
           free == sem.value > 0 /\ sem.waiters = <<>>
       IN  /\ ~g1.val /\ ~g2.val
           /\ request_id_counter' = id
           /\ heap' = [heap EXCEPT ![metrics] = sent,
                                   ![semaphore] =
                                       IF free THEN [@ EXCEPT !.value = @ - 1]
                                       ELSE [@ EXCEPT !.waiters = Append(@, c)]]
           /\ Goto(c, IF free THEN "generating" ELSE "sem_wait")
           /\ Assign(c, [loc[c] EXCEPT !.id = id, !.sem = semaphore])
    /\ UNCHANGED <<metrics, now, histVars, apiVars, semaphore, usage_stats, held,
                   max_concurrent_requests>>

\* the first task queued on a semaphore gets the slot that was released
live_semaphore_acquired(c) ==
    /\ pc[c] = "sem_wait"
    /\ LET sem == heap[loc[c].sem] IN
        /\ sem.value > 0
        /\ sem.waiters # <<>> /\ Head(sem.waiters) = c
        /\ heap' = [heap EXCEPT ![loc[c].sem] =
                       [value |-> sem.value - 1, waiters |-> Tail(sem.waiters)]]
    /\ Goto(c, "generating")
    /\ UNCHANGED <<metrics, now, histVars, apiVars, loc, request_id_counter, semaphore,
                   usage_stats, held, max_concurrent_requests>>

\* generate_output_async raises, or returns and _after_response books the result
\* in the recorder and the statistics the service has now; leaving the
\* `async with` block releases the semaphore that was entered
live_generate_output_async(c) ==
    /\ pc[c] = "generating"
    /\ LET released == [heap EXCEPT ![loc[c].sem] = [@ EXCEPT !.value = @ + 1]] IN
        \/ heap' = released
        \/ \E i \in 1..Len(Metas) :
             LET u == Metas[i]
                 rcvd == mark_rcv(released[metrics], loc[c].id,
                                  Get(u, "total_tokens"), Get(u, "total_cost"), now)
             IN  heap' = update([released EXCEPT ![metrics] = rcvd],
                                usage_stats, u, "unknown_operation")
    /\ Assign(c, NoLoc)
    /\ Goto(c, "idle")
    /\ UNCHANGED <<metrics, now, histVars, apiVars, request_id_counter, semaphore,
                   usage_stats, held, max_concurrent_requests>>

\* set_concurrency(n): self.semaphore = asyncio.Semaphore(n)
set_concurrency(h, self, n) ==
    [ heap |-> Append(h, Semaphore(n)), semaphore |-> Len(h) + 1 ]

Call_set_concurrency ==
    /\ Reconfigs < MaxReconfigs
    /\ \E n \in Concurrencies :
         LET r == set_concurrency(heap, [semaphore |-> semaphore,
                                         max_concurrent_requests |-> max_concurrent_requests], n)
         IN  /\ heap' = r.heap
             /\ semaphore' = r.semaphore
             /\ max_concurrent_requests' = n
             /\ ret' = n
    /\ lastOp' = "set_concurrency"
    /\ UNCHANGED <<metrics, now, histVars, usage_stats, held, pc, loc, request_id_counter>>

InitLive ==
    /\ pc = [c \in Callers |-> "idle"]
    /\ loc = [c \in Callers |-> NoLoc]
    /\ request_id_counter = 0
    /\ \E cfg \in ServiceConfigs, n \in Concurrencies :
          LET u == UsageStats(<<>>, DefaultModel) IN
            /\ heap = u.heap \o << MetricsRecorder(cfg[1], cfg[2], cfg[3]), Semaphore(n) >>
            /\ usage_stats = u.ref
            /\ metrics = Len(u.heap) + 1
            /\ semaphore = Len(u.heap) + 2
            /\ max_concurrent_requests = n
    /\ held = NoHeld
    /\ now = 0
    /\ sentHist = <<>>
    /\ rcvHist = <<>>
    /\ lastOp = "init"
    /\ ret = None

NextLive ==
    \/ \E c \in Callers :
        \/ live_execute_generation_async(c)
        \/ live_semaphore_acquired(c)
        \/ live_generate_output_async(c)
    \/ Call_execute_generation
    \/ Call_reset_usage_stats
    \/ Call_set_concurrency

SpecLive == InitLive /\ [][NextLive]_vars

\* ---- what the history says ---------------------------------------------
\* the calls of a history whose timestamp lies in the window that ends at t
InWindow(hist, t, w) == {i \in 1..Len(hist) : hist[i].ts >= t - w}
TokensIn(hist, idx) == SumSeq([i \in 1..Len(hist) |-> IF i \in idx THEN hist[i].tokens ELSE 0])
CostOfFirst(hist, k) == SumSeq([i \in 1..k |-> hist[i].cost])

\* C1: for one caller, rpm() at time t returns
\* (number of mark_sent calls with timestamp >= t - window) * 60 / window.
C1_RpmCountsWindow ==
    lastOp = "rpm" =>
        ret = Rate(Cardinality(InWindow(sentHist, now, metrics.window)), metrics.window)

\* a call older than the window is left out while one exactly `window` old is counted
C1_Witness ==
    /\ lastOp = "rpm"
    /\ \E i \in 1..Len(sentHist) : sentHist[i].ts < now - metrics.window
    /\ \E i \in 1..Len(sentHist) : sentHist[i].ts = now - metrics.window
    /\ ret[1] = 60

\* C9: is_rpm_limited() is true exactly when max_rpm is set and rpm() >= max_rpm,
\* is_tpm_limited() exactly when max_tpm is set and tpm() >= max_tpm; with the cap
\* unset the predicate is false.
C9_LimitedIffCapReached ==
    /\ lastOp = "is_rpm_limited" =>
          ret = ( /\ metrics.max_rpm # None
                  /\ Cardinality(InWindow(sentHist, now, metrics.window)) * 60
                        >= Val(metrics.max_rpm) * metrics.window )
    /\ lastOp = "is_tpm_limited" =>
          ret = ( /\ metrics.max_tpm # None
                  /\ TokensIn(rcvHist, InWindow(rcvHist, now, metrics.window)) * 60
                        >= Val(metrics.max_tpm) * metrics.window )

C9_Witness ==
    /\ lastOp = "is_rpm_limited"
    /\ ret = TRUE
    /\ Len(metrics.sent_ts) * 60 = Val(metrics.max_rpm) * metrics.window

\* C10: with max_rpm > 0, when the last mark_sent is more than `window` seconds
\* old, is_rpm_limited() returns false (at every check until the next mark_sent).
C10_IdleWindowClearsLimit ==
    ( /\ lastOp = "is_rpm_limited"
      /\ metrics.max_rpm # None
      /\ sentHist # <<>>
      /\ now > sentHist[Len(sentHist)].at + metrics.window )
    => (Val(metrics.max_rpm) > 0 => ret = FALSE)

\* enough calls were made in one second to reach the cap, and the check made
\* after the idle window says "not limited"
C10_Witness ==
    /\ lastOp = "is_rpm_limited"
    /\ metrics.max_rpm # None
    /\ ret = FALSE
    /\ Len(sentHist) >= 2
    /\ \A i \in 1..Len(sentHist) : sentHist[i].ts = sentHist[1].ts
    /\ Len(sentHist) * 60 >= Val(metrics.max_rpm) * metrics.window
    /\ now > sentHist[Len(sentHist)].at + metrics.window

\* C11: for one caller, tpm() at time t returns
\* (sum of the tokens of the mark_rcv calls with timestamp >= t - window) * 60 / window.
C11_TpmSumsWindow ==
    lastOp = "tpm" =>
        ret = Rate(TokensIn(rcvHist, InWindow(rcvHist, now, metrics.window)), metrics.window)

\* two calls inside the window are summed while an older call is left out
C11_Witness ==
    /\ lastOp = "tpm"
    /\ \E i \in 1..Len(rcvHist) : rcvHist[i].ts < now - metrics.window
    /\ Cardinality(InWindow(rcvHist, now, metrics.window)) = 2
    /\ ret[1] = 3 * 60

\* ---- construction ----------------------------------------------------------
\* C13: no recorder exists whose window, max_rpm or max_tpm is zero or negative
\* (such arguments are rejected by the constructor).
C13_NoDegenerateRecorder ==
    /\ metrics.window > 0
    /\ metrics.max_rpm # None => Val(metrics.max_rpm) > 0
    /\ metrics.max_tpm # None => Val(metrics.max_tpm) > 0

\* C14: on every recorder that can be constructed no call fails, and a rate
\* computed over an empty event sequence is 0.
C14_RecorderCallsNeverFail ==
    /\ lastOp # "ZeroDivisionError"
    /\ (lastOp = "rpm" /\ metrics.sent_ts = <<>>) => ret[1] = 0
    /\ (lastOp = "repm" /\ metrics.rcv_ts = <<>>) => ret[1] = 0
    /\ (lastOp = "tpm" /\ metrics.tok_ts = <<>>) => ret[1] = 0


\* ---- the rate gate under threads ----------------------------------------
GatePcs == { "rpm_check", "rpm_refresh_empty", "rpm_refresh_oldest", "rpm_sleep",
             "tpm_check", "tpm_refresh_empty", "tpm_refresh_oldest", "tpm_sleep",
             "mark_sent_now", "mark_sent_lock" }
InSeq(x, seq) == \E i \in 1..Len(seq) : seq[i] = x

\* the smallest number of sent events in the window at which is_rpm_limited() is true
CapCount(m) ==
    CHOOSE n \in 0..(Val(m.max_rpm) * m.window + 1) :
        /\ RateGE(Rate(n, m.window), Val(m.max_rpm))
        /\ \A k \in 0..(n - 1) : ~RateGE(Rate(k, m.window), Val(m.max_rpm))

SentInWindow == Cardinality({i \in 1..Len(metrics.sent_ts) : metrics.sent_ts[i] >= now - metrics.window})

C3_GateEndsInMarkSent ==
    \A c \in Callers :
        (loc[c].id # 0 /\ pc[c] \notin GatePcs) => InSeq(loc[c].id, metrics.sent_ids)

C15_ZeroCapNeverAdmits ==
    (metrics.max_rpm = Some(0) \/ metrics.max_tpm = Some(0)) =>
        /\ metrics.max_rpm = Some(0) => is_rpm_limited(metrics, now).val
        /\ metrics.max_tpm = Some(0) => is_tpm_limited(metrics, now).val
        /\ \A c \in Callers :
              pc[c] \in {"idle", "get_rpm_1", "get_rpm_2", "get_tpm_1", "get_tpm_2", "gen_id",
                         "rpm_check", "rpm_refresh_empty", "rpm_sleep",
                         "tpm_check", "tpm_refresh_empty", "tpm_sleep"}
        /\ metrics.total_sent = 0
        /\ metrics.sent_ids = <<>>

\* two seconds on, both callers are still going round the TPM wait loop
C15_Witness ==
    /\ metrics.max_tpm = Some(0)
    /\ now >= 2
    /\ \A c \in Callers : pc[c] = "tpm_sleep" /\ loc[c].waited2

\* C6: no step of a caller reads an event sequence outside a locked section of
\* the recorder (the steps of _secs_until_window_refresh are such reads).
ReadsDequeOutsideLock(c) ==
    \E kind \in {"rpm", "tpm"} : refresh_if_not_dq(c, kind) \/ refresh_oldest(c, kind)

C6_EveryAccessUnderLock == [][~ \E c \in Callers : ReadsDequeOutsideLock(c)]_vars

\* C7: no wait loop raises.
C7_WaitLoopNeverRaises == \A c \in Callers : pc[c] # "IndexError"


\* ---- snapshot() against concurrent mark_rcv -----------------------------
\* tokens of the calls among the first k whose timestamp lies in the window
\* that ends at t
WindowTokens(k, t) ==
    TokensIn(rcvHist, {i \in 1..k : rcvHist[i].ts >= t - metrics.window})

\* C5: a returned snapshot shows, for k = total_rcv, the cost of the first k
\* completed mark_rcv calls and, in tpm, the tokens of exactly those of the k
\* calls that are inside the window (at some instant of the snapshot call).
C5_SnapshotIsConsistent ==
    lastOp = "snapshot" =>
        LET k == ret.snap.total_rcv IN
            /\ k <= Len(rcvHist)
            /\ ret.snap.cost = CostOfFirst(rcvHist, k)
            /\ \E t \in ret.taken .. ret.returned :
                    ret.snap.tpm = Rate(WindowTokens(k, t), metrics.window)

\* ---- the lifetime totals under threads -----------------------------------
\* C12: under any interleaving of threads, total_sent is the number of completed
\* mark_sent calls, total_rcv the number of completed mark_rcv calls and
\* total_cost the sum of their costs; no step (a trim included) lowers a total.
C12_TotalsCountCalls ==
    /\ [](/\ metrics.total_sent = Len(sentHist)
          /\ metrics.total_rcv = Len(rcvHist)
          /\ metrics.total_cost = CostOfFirst(rcvHist, Len(rcvHist)))
    /\ [][/\ metrics'.total_sent >= metrics.total_sent
          /\ metrics'.total_rcv >= metrics.total_rcv
          /\ metrics'.total_cost >= metrics.total_cost]_vars

\* a call was preempted between its timestamp and the lock, an event has been
\* trimmed, and the totals still count every call
C12_Witness ==
    /\ metrics.total_sent = 2
    /\ Len(metrics.sent_ts) < 2
    /\ \E i \in 1..Len(sentHist) : sentHist[i].at > sentHist[i].ts
    /\ metrics.total_rcv = 1
    /\ metrics.total_cost = 3


\* ---- cancellation in the rate gate --------------------------------------
\* C8: a task cancelled while it sleeps in the RPM or TPM wait loop has recorded
\* no mark_sent: its request id is not in sent_ids, and total_sent counts the
\* recorded ids only.
C8_CancelledInGateSentNothing ==
    \A c \in Callers :
        pc[c] = "cancelled_in_gate" =>
            /\ ~InSeq(loc[c].id, metrics.sent_ids)
            /\ metrics.total_sent = Len(metrics.sent_ids)
            /\ Len(metrics.sent_ts) <= Len(metrics.sent_ids)

\* a task was cancelled in the gate while another task's event is recorded
C8_Witness ==
    \E c \in Callers :
        /\ pc[c] = "cancelled_in_gate"
        /\ loc[c].id # 0
        /\ metrics.total_sent >= 1


\* ---- re-configuration and reset ---------------------------------------------
\* C16: a set_rate_limits step changes, in the service's recorder, only the caps
\* whose argument is not None (to that argument), and changes no other object.
C16_SetRateLimitsFrame ==
    [][ lastOp' = "set_rate_limits" =>
          LET m == heap[metrics]
              m2 == heap'[metrics'] IN
            /\ metrics' = metrics
            /\ Len(heap') = Len(heap)
            /\ \A a \in 1..Len(heap) : a # metrics => heap'[a] = heap[a]
            /\ m2.window = m.window
            /\ <<m2.sent_ts, m2.rcv_ts, m2.tok_ts, m2.sent_ids, m2.rcv_ids>>
                 = <<m.sent_ts, m.rcv_ts, m.tok_ts, m.sent_ids, m.rcv_ids>>
            /\ <<m2.total_sent, m2.total_rcv, m2.total_cost>>
                 = <<m.total_sent, m.total_rcv, m.total_cost>>
            /\ m2.max_rpm = (IF ret'.max_rpm = None THEN m.max_rpm ELSE ret'.max_rpm)
            /\ m2.max_tpm = (IF ret'.max_tpm = None THEN m.max_tpm ELSE ret'.max_tpm)
      ]_vars

\* only max_tpm was given: max_rpm and the history recorded so far are as before
C16_Witness ==
    /\ lastOp = "set_rate_limits"
    /\ ret.max_rpm = None
    /\ ret.max_tpm = Some(2000)
    /\ heap[metrics].max_rpm = Some(100)
    /\ heap[metrics].max_tpm = Some(2000)
    /\ heap[metrics].total_sent = 2
    /\ Len(heap[metrics].sent_ts) = 2
    /\ heap[metrics].total_cost > 0

\* C17: a reset_usage_stats step binds the service to a newly allocated recorder
\* (empty, totals 0, same window and caps) and a newly allocated UsageStats
\* (totals 0, no operation entry); the previous two objects keep their values.
C17_ResetSwapsInNewObjects ==
    [][ lastOp' = "reset_usage_stats" =>
          /\ metrics' \notin 1..Len(heap)
          /\ usage_stats' \notin 1..Len(heap)
          /\ heap'[metrics'] = MetricsRecorder(heap[metrics].window,
                                               heap[metrics].max_rpm, heap[metrics].max_tpm)
          /\ View(heap', usage_stats').total_usage = ZeroUsage
          /\ DOMAIN View(heap', usage_stats').operation_usage = {}
          /\ heap'[metrics] = heap[metrics]
          /\ View(heap', usage_stats) = View(heap, usage_stats)
      ]_vars

\* the objects the client kept still show two requests and their usage, while
\* the service's own are zeroed, with the cap set before the reset
C17_Witness ==
    /\ lastOp = "reset_usage_stats"
    /\ heap[held.old_metrics].total_sent = 2
    /\ heap[held.old_metrics].total_cost > 0
    /\ heap[held.old_metrics].max_rpm = Some(2)
    /\ DOMAIN View(heap, held.old_stats).operation_usage # {}
    /\ View(heap, held.old_stats).total_usage.total_tokens > 0
    /\ heap[metrics].total_sent = 0
    /\ heap[metrics].max_rpm = Some(2)
    /\ View(heap, usage_stats).total_usage = ZeroUsage

\* ---- UsageStats ---------------------------------------------------------------
TokenKeys == {"input_tokens", "output_tokens", "total_tokens"}
CostKeys == {"input_cost", "output_cost", "total_cost"}
OpNameSeq == <<"op_a", "unknown_operation">>
\* the UsageStats objects: the service's and the one replaced by a reset
StatsObjects == {usage_stats, held.old_stats} \ {0}

\* the sum of usage[key] over the updates of the object s made under the name op
Booked(s, op, key) ==
    SumSeq([i \in 1..Len(rcvHist) |->
              IF rcvHist[i].stats = s /\ rcvHist[i].op = op
              THEN Get(rcvHist[i].usage, key) ELSE 0])

\* C18: for every UsageStats object, an operation has an entry exactly when an
\* update was made under its name; each token total of the entry is the sum of
\* that key over those updates (a missing key counting 0); each global token
\* total is the sum of the entries' totals.
C18_TokenTotalsAreSums ==
    \A s \in StatsObjects :
        LET v == View(heap, s) IN
          /\ \A j \in 1..Len(OpNameSeq) :
                LET op == OpNameSeq[j] IN
                  /\ op \in DOMAIN v.operation_usage
                        <=> \E i \in 1..Len(rcvHist) : rcvHist[i].stats = s /\ rcvHist[i].op = op
                  /\ op \in DOMAIN v.operation_usage =>
                        \A key \in TokenKeys : v.operation_usage[op][key] = Booked(s, op, key)
          /\ DOMAIN v.operation_usage \subseteq {OpNameSeq[j] : j \in 1..Len(OpNameSeq)}
          /\ \A key \in TokenKeys :
                v.total_usage[key] =
                    SumSeq([j \in 1..Len(OpNameSeq) |->
                              IF OpNameSeq[j] \in DOMAIN v.operation_usage
                              THEN v.operation_usage[OpNameSeq[j]][key] ELSE 0])

\* op_a was updated twice, once with a usage that lacks input_tokens
C18_Witness ==
    LET v == View(heap, usage_stats) IN
      /\ DOMAIN v.operation_usage = {"op_a"}
      /\ v.operation_usage["op_a"].total_tokens = 15 + 2
      /\ v.operation_usage["op_a"].input_tokens = 10
      /\ v.total_usage.total_tokens = 15 + 2

\* C19: every cost total of every usage dict is rounded to 5 decimal places
\* (a multiple of 10 units of 10^-6).
C19_CostTotalsRounded ==
    \A s \in StatsObjects :
        LET v == View(heap, s) IN
          /\ \A key \in CostKeys : v.total_usage[key] % 10 = 0
          /\ \A op \in DOMAIN v.operation_usage :
                \A key \in CostKeys : v.operation_usage[op][key] % 10 = 0

\* C20: what is read through the mapping returned by get_usage_stats() stays
\* what it was when the mapping was returned.
C20_ReturnedMappingIsSnapshot ==
    held.mapping # 0 => View(heap, held.mapping) = Val(held.seen)


\* ---- the concurrency limit ----------------------------------------------------
\* the tasks inside the semaphore-guarded generation call
Inside == {c \in Callers : pc[c] = "generating"}

\* C21: with the semaphore built once from max_concurrent_requests, at most
\* that many tasks are inside the guarded generation call, and the free slots
\* and the tasks inside add up to it.
C21_AtMostMInside ==
    /\ Cardinality(Inside) <= max_concurrent_requests
    /\ semaphore.value + Cardinality(Inside) = max_concurrent_requests

\* with one slot, one task is inside and the other queues on the semaphore
C21_Witness ==
    /\ max_concurrent_requests = 1
    /\ \E c, d \in Callers : pc[c] = "generating" /\ pc[d] = "sem_wait"


\* ---- the wait loops of a single caller ----------------------------------------
\* the deque as the check made at time t leaves it
Rechecked(kind, t) ==
    IF kind = "rpm" THEN rpm(metrics, t).rec.sent_ts ELSE tpm(metrics, t).rec.tok_ts

\* C22: the pause was computed from the oldest event and ends now, exactly
\* wait_seconds later: the re-check made now no longer counts that event.
C22_OnePauseRefreshes ==
    \A kind \in {"rpm", "tpm"} :
        ( /\ pc[Alone] = kind \o "_sleep"
          /\ GateDeque(kind) # <<>>
          /\ loc[Alone].wake = OldestOf(GateDeque(kind), kind = "tpm") + metrics.window
          /\ now = loc[Alone].wake )
        => Len(Rechecked(kind, now)) < Len(GateDeque(kind))

\* C26: for a single caller, right after a mark_sent rpm() < max_rpm + 60 / window,
\* and the sent events inside the window never number more than that allows.
C26_SequentialCapIsHard ==
    /\ pc[Alone] = "generate" =>
          Len(rpm(metrics, now).rec.sent_ts) * 60
              < Val(metrics.max_rpm) * metrics.window + 60
    /\ SentInWindow * 60 < Val(metrics.max_rpm) * metrics.window + 60

\* the caller had to wait, has just sent, and the window is filled to the cap
C26_Witness ==
    /\ pc[Alone] = "generate"
    /\ loc[Alone].waited
    /\ metrics.total_sent >= 2
    /\ RateGE(Rate(SentInWindow, metrics.window), Val(metrics.max_rpm))


\* ---- the order and the pairing of the event sequences ---------------------------
NonDecreasing(seq) == \A i, j \in 1..Len(seq) : i < j => seq[i] <= seq[j]
Stamps(pairs) == [i \in 1..Len(pairs) |-> pairs[i][1]]

\* C23: under concurrent mark_sent / mark_rcv calls each of sent_ts, rcv_ts and
\* tok_ts is ordered by non-decreasing timestamp.
C23_DequesTimeOrdered ==
    /\ NonDecreasing(metrics.sent_ts)
    /\ NonDecreasing(metrics.rcv_ts)
    /\ NonDecreasing(Stamps(metrics.tok_ts))

\* C25: the ids are trimmed together with the timestamps: sent_ids is as long
\* as sent_ts and rcv_ids as long as rcv_ts.
C25_IdsTrimmedWithTimestamps ==
    /\ Len(metrics.sent_ids) = Len(metrics.sent_ts)
    /\ Len(metrics.rcv_ids) = Len(metrics.rcv_ts)

C27_NoCheckThenSendRace ==
    [][ (metrics.max_tpm = None /\ metrics.max_rpm # None
            /\ metrics'.total_sent = metrics.total_sent + 1)
        => LET r == rpm(metrics', now').val
           IN  r[1] < Val(metrics.max_rpm) * r[2] + 60 ]_vars

\* max_tpm is unset, the window is full and a second task is kept in the RPM
\* wait loop while the first one's request is out
C27_Witness ==
    /\ metrics.max_tpm = None /\ metrics.max_rpm # None
    /\ metrics.total_sent >= 1
    /\ SentInWindow = CapCount(metrics)
    /\ \E c, d \in Callers : pc[c] = "rpm_sleep" /\ pc[d] = "generating"

\* ---- reset and re-configuration with requests in flight -------------------------
\* the tasks inside the guarded generation call, whatever semaphore they entered
InsideGuarded == {c \in Callers : pc[c] = "generating" /\ loc[c].sem # 0}

\* C28: in every reachable state of a service driven through execute_generation,
\* execute_generation_async and reset_usage_stats, the current recorder has
\* total_rcv <= total_sent, also when the reset comes while requests are in flight.
C28_RcvNeverExceedsSent ==
    heap[metrics].total_rcv <= heap[metrics].total_sent

\* C30: the tasks inside the semaphore-guarded generation call number at most
\* the max_concurrent_requests configured last, also when set_concurrency is
\* called while requests are in flight or queued.
C30_LimitFollowsReconfiguration ==
    Cardinality(InsideGuarded) <= max_concurrent_requests

\* C29: the two cost ledgers fed by _after_response agree: after any sequence of
\* completed requests since the last reset, the recorder's total_cost (what
\* get_total_cost() returns) and total_usage['total_cost'] of the statistics
\* differ by less than 10^-5 (10 units of 10^-6), whatever the requests cost.
C29_CostLedgersAgree ==
    LET d == heap[metrics].total_cost - View(heap, usage_stats).total_usage.total_cost
    IN  -10 < d /\ d < 10

====
